---- MODULE Spec2Model ----
(***************************************************************************)
(* react-proptypes-generate: the command line driver (bin/cli.js) and the  *)
(* inference actions (findComponentNode, findPropTypes, ...).              *)
(*                                                                         *)
(* The module holds one state machine per part of the program:             *)
(*   SpecWalk      getProjectJavascriptFiles on a directory tree           *)
(*   SpecLocate    findComponentNode on a syntax tree                      *)
(*   SpecDecl      findPropTypesInPropTypeNode on a declaration literal    *)
(*   SpecMerge     findPropTypes: interpret, merge, sort                   *)
(*   SpecComplete  findAndCompletePropTypes applied twice                  *)
(*   SpecFile      the default command: parseAndGenerate on one file       *)
(*   SpecProject   the project command: the loop over a list of files      *)
(* Each specification leaves the variables of the other parts idle.        *)
(***************************************************************************)
EXTENDS Integers, Sequences, FiniteSets, TLC

VARIABLES
  \* getProjectJavascriptFiles
  fsRoot,        \* the file system node at the path given to the command
  callStack,     \* the JavaScript call stack of getProjectJavascriptFiles
  walkOut,       \* what the outermost call produced
  \* findComponentNode
  ast,           \* the parsed tree: node id -> node
  visitTodo,     \* nodes recast.visit still has to visit, next first
  componentNode, \* the closure variable of findComponentNode
  locateOut,     \* the promise findComponentNode returned
  \* findPropTypesInPropTypeNode and findPropTypes
  propTypesNode, \* the declaration node findPropTypesNode returned
  usageTypes,    \* what findPropTypesByPropsIdentity returned
  defaultTypes,  \* what findPropTypesInDefaultPropsNode returned
  explicitTypes, \* what findPropTypesInPropTypeNode returned
  mergeOut,      \* the promise findPropTypes returned
  \* findAndCompletePropTypes
  block,         \* the block statement handed to the completion pass
  completeIn,    \* the records handed to the first pass
  firstPass,     \* what the first pass returned
  secondPass,    \* what the pass returned when applied to firstPass
  \* bin/cli.js: the commands, parseAndGenerate and generatePropTypes
  config,        \* setting.json as readConfig() returns it
  disk,          \* the files: what each holds and the edits written to it
  phase,         \* "sync" while the command's action runs, then "async"
  loopI,         \* files the command has handed to parseAndGenerate
  chains         \* per file, the Promise.reduce chain over its components

walkVars == <<fsRoot, callStack, walkOut>>
locateVars == <<ast, visitTodo, componentNode, locateOut>>
mergeVars == <<propTypesNode, usageTypes, defaultTypes, explicitTypes, mergeOut>>
completeVars == <<block, completeIn, firstPass, secondPass>>
cliVars == <<config, disk, phase, loopI, chains>>
vars == <<walkVars, locateVars, mergeVars, completeVars, cliVars>>

\* What the actions of one part leave alone: the variables of the other parts.
walkOthers == <<locateVars, mergeVars, completeVars, cliVars>>
locateOthers == <<walkVars, mergeVars, completeVars, cliVars>>
mergeOthers == <<walkVars, locateVars, completeVars, cliVars>>
completeOthers == <<walkVars, locateVars, mergeVars, cliVars>>
cliOthers == <<walkVars, locateVars, mergeVars, completeVars>>

Nil == "nil"

SeqToSet(s) == {s[i] : i \in 1..Len(s)}

NoDuplicates(s) == \A i, j \in 1..Len(s) : s[i] = s[j] => i = j

\* All sequences over S of length at most n.
SeqsUpTo(S, n) == UNION {[1..k -> S] : k \in 0..n}

(***************************************************************************)
(* getProjectJavascriptFiles (bin/cli.js 53-67)                            *)
(***************************************************************************)

\* Bounds of the directory trees and of the engine's call stack.
MaxEntries == 2
StackLimit == 4

\* File names, spelled out so that the regular expression can be applied.
FileNames ==
  { <<"a", ".", "j", "s">>,
    <<"b", ".", "j", "s", "x">>,
    <<"c", ".", "t", "s">>,
    <<"d", ".", "t", "s", "x">>,
    <<"e", ".", "c", "s", "s">>,
    <<"f", ".", "m", "j", "s">>,
    <<"j", "s">> }

File(name) == [kind |-> "file", name |-> name, entries |-> <<>>]

Dir(entries) == [kind |-> "dir", name |-> <<"s", "r", "c">>, entries |-> entries]

Files == {File(n) : n \in FileNames}

\* The files found inside directories: two source files and one that is not.
DirFiles ==
  {File(<<"a", ".", "j", "s">>), File(<<"d", ".", "t", "s", "x">>),
   File(<<"e", ".", "c", "s", "s">>)}

\* Directories holding files only, then directories holding those too.
LeafDirs == {Dir(es) : es \in SeqsUpTo(DirFiles, MaxEntries)}

FsRoots == Files \cup {Dir(es) : es \in SeqsUpTo(DirFiles \cup LeafDirs, MaxEntries)}

EndsWith(s, suffix) ==
  /\ Len(s) >= Len(suffix)
  /\ SubSeq(s, Len(s) - Len(suffix) + 1, Len(s)) = suffix

\* filePath.match(/\.(js|jsx|ts|tsx)$/)
MatchesSourceSuffix(name) ==
  \/ EndsWith(name, <<".", "j", "s">>)
  \/ EndsWith(name, <<".", "j", "s", "x">>)
  \/ EndsWith(name, <<".", "t", "s">>)
  \/ EndsWith(name, <<".", "t", "s", "x">>)

\* A path is the sequence of entry indexes leading from fsRoot to a node.
RECURSIVE NodeAt(_, _)
NodeAt(node, path) ==
  IF path = <<>> THEN node ELSE NodeAt(node.entries[Head(path)], Tail(path))

\* The argument of the recursive call at line 59: the directory's own path.
RecursePath(filePath, i) == filePath

Frame(path) == [path |-> path, phase |-> "enter", i |-> 0, n |-> 0, files |-> <<>>]

\* Lines 55-57 and 61-65: stat the path, list a directory or test a file name.
WalkStat ==
  /\ callStack # <<>>
  /\ LET top == callStack[Len(callStack)]
         node == NodeAt(fsRoot, top.path)
     IN /\ top.phase = "enter"
        /\ callStack' =
             [callStack EXCEPT ![Len(callStack)] =
               IF node.kind = "dir"
                 THEN [top EXCEPT !.phase = "loop", !.n = Len(node.entries)]
                 ELSE [top EXCEPT !.phase = "return",
                                  !.files = IF MatchesSourceSuffix(node.name)
                                              THEN <<top.path>> ELSE <<>>]]
  /\ UNCHANGED <<fsRoot, walkOut>>
  /\ UNCHANGED walkOthers

\* Line 59: the recursive call, while the engine's stack has room.
WalkRecurse ==
  /\ callStack # <<>>
  /\ LET top == callStack[Len(callStack)]
     IN /\ top.phase = "loop"
        /\ top.i < top.n
        /\ Len(callStack) < StackLimit
        /\ callStack' = Append(callStack, Frame(RecursePath(top.path, top.i)))
  /\ UNCHANGED <<fsRoot, walkOut>>
  /\ UNCHANGED walkOthers

\* Line 59 with the stack exhausted: RangeError, Maximum call stack size exceeded.
WalkOverflow ==
  /\ callStack # <<>>
  /\ LET top == callStack[Len(callStack)]
     IN /\ top.phase = "loop"
        /\ top.i < top.n
        /\ Len(callStack) >= StackLimit
  /\ callStack' = <<>>
  /\ walkOut' = [status |-> "RangeError", files |-> <<>>]
  /\ UNCHANGED fsRoot
  /\ UNCHANGED walkOthers

\* Line 66 (and the push of line 59 in the caller).
WalkReturn ==
  /\ callStack # <<>>
  /\ LET depth == Len(callStack)
         top == callStack[depth]
     IN /\ top.phase = "return" \/ (top.phase = "loop" /\ top.i = top.n)
        /\ IF depth = 1
             THEN /\ callStack' = <<>>
                  /\ walkOut' = [status |-> "returned", files |-> top.files]
             ELSE /\ callStack' =
                       [SubSeq(callStack, 1, depth - 1) EXCEPT ![depth - 1] =
                         [@ EXCEPT !.files = @ \o top.files, !.i = @ + 1]]
                  /\ UNCHANGED walkOut
  /\ UNCHANGED fsRoot
  /\ UNCHANGED walkOthers

WalkNext == WalkStat \/ WalkRecurse \/ WalkOverflow \/ WalkReturn

\* The files under a node whose names carry one of the four suffixes.
RECURSIVE SourceFilesUnder(_, _)
SourceFilesUnder(node, path) ==
  IF node.kind = "file"
    THEN IF MatchesSourceSuffix(node.name) THEN {path} ELSE {}
    ELSE UNION {SourceFilesUnder(node.entries[k], Append(path, k)) :
                  k \in 1..Len(node.entries)}

(***************************************************************************)
(* findComponentNode (part_000 84-116)                                     *)
(***************************************************************************)

\* Number of nodes below the Program node.
MaxNodes == 3

\* options.name
Target == "A"

\* A node's name is its id's name: "" stands for a null id (an anonymous
\* default export) and, on a VariableDeclarator, for an id that is a pattern.
NodeLabels ==
  {[type |-> "ClassDeclaration", name |-> n] : n \in {"A", "B", ""}}
    \cup {[type |-> "FunctionDeclaration", name |-> n] : n \in {"A", ""}}
    \cup {[type |-> "ArrowFunctionExpression", name |-> ""]}
    \cup {[type |-> "VariableDeclarator", name |-> n] : n \in {"A", "B"}}

\* Node 0 is the Program; every other node hangs below a smaller id.
Trees ==
  {t \in [1..MaxNodes -> [label : NodeLabels, parent : 0..(MaxNodes - 1)]] :
     \A n \in 1..MaxNodes : t[n].parent < n}

RECURSIVE SortedSeq(_)
SortedSeq(S) ==
  IF S = {} THEN <<>>
  ELSE LET m == CHOOSE x \in S : \A y \in S : x <= y
       IN <<m>> \o SortedSeq(S \ {m})

\* The children of a node, in source order.
Children(t, p) == SortedSeq({n \in DOMAIN t : t[n].parent = p})

\* A faulty variant: the first match is kept and later matches are ignored.
KeepFirstComponentNode(current, node) == IF current = 0 THEN node ELSE current

\* The assignment componentNode = node of lines 91, 98 and 106.
AssignComponentNode(current, node) == node

\* Lines 88-94.
visitClassDeclaration(t, n, current) ==
  IF t[n].label.name = Target THEN AssignComponentNode(current, n) ELSE current

\* Lines 95-101.
visitFunctionDeclaration(t, n, current) ==
  IF t[n].label.name # "" /\ t[n].label.name = Target
    THEN AssignComponentNode(current, n) ELSE current

\* Lines 102-109: the arrow function is matched through its parent node.
visitArrowFunctionExpression(t, n, current) ==
  LET p == t[n].parent
  IN IF /\ p # 0
        /\ t[p].label.type = "VariableDeclarator"
        /\ t[p].label.name # ""
        /\ t[p].label.name = Target
       THEN AssignComponentNode(current, n) ELSE current

\* node.id.name on a class without id: a TypeError out of recast.visit.
VisitThrows(t, n) ==
  t[n].label.type = "ClassDeclaration" /\ t[n].label.name = ""

\* One visitor call of recast.visit, then this.traverse(path).
LocateVisit ==
  /\ visitTodo # <<>>
  /\ LET n == Head(visitTodo)
         type == ast[n].label.type
     IN IF VisitThrows(ast, n)
          THEN /\ visitTodo' = <<>>
               /\ locateOut' = [status |-> "TypeError", node |-> 0]
               /\ UNCHANGED componentNode
          ELSE /\ componentNode' =
                    CASE type = "ClassDeclaration" ->
                           visitClassDeclaration(ast, n, componentNode)
                      [] type = "FunctionDeclaration" ->
                           visitFunctionDeclaration(ast, n, componentNode)
                      [] type = "ArrowFunctionExpression" ->
                           visitArrowFunctionExpression(ast, n, componentNode)
                      [] OTHER -> componentNode
               /\ visitTodo' = Children(ast, n) \o Tail(visitTodo)
               /\ UNCHANGED locateOut
  /\ UNCHANGED ast
  /\ UNCHANGED locateOthers

\* Lines 111-115.
LocateSettle ==
  /\ visitTodo = <<>>
  /\ locateOut.status = "pending"
  /\ locateOut' =
       IF componentNode # 0
         THEN [status |-> "resolved", node |-> componentNode]
         ELSE [status |-> "rejected", node |-> 0]
  /\ UNCHANGED <<ast, visitTodo, componentNode>>
  /\ UNCHANGED locateOthers

LocateNext == LocateVisit \/ LocateSettle

\* The nodes of the tree in pre-order.
RECURSIVE PreOrderAll(_, _)
RECURSIVE PreOrder(_, _)
PreOrderAll(t, nodes) ==
  IF nodes = <<>> THEN <<>>
  ELSE PreOrder(t, Head(nodes)) \o PreOrderAll(t, Tail(nodes))
PreOrder(t, n) == <<n>> \o PreOrderAll(t, Children(t, n))

\* A node that defines the component named Target.
DefinesComponent(t, n) ==
  \/ t[n].label.type \in {"ClassDeclaration", "FunctionDeclaration"}
       /\ t[n].label.name = Target
  \/ /\ t[n].label.type = "ArrowFunctionExpression"
     /\ t[n].parent # 0
     /\ t[t[n].parent].label = [type |-> "VariableDeclarator", name |-> Target]

MatchesInPreOrder(t) ==
  SelectSeq(PreOrderAll(t, Children(t, 0)), LAMBDA n : DefinesComponent(t, n))

(***************************************************************************)
(* Syntax nodes and property records                                       *)
(***************************************************************************)

\* A syntax node. name is an Identifier's name, a MemberExpression's
\* property name or a Property's key name; sub holds the object, the callee
\* or the value; args holds call arguments, array elements or properties.
Node(type, name, sub, args) ==
  [type |-> type, name |-> name, sub |-> sub, args |-> args]

Identifier(name) == Node("Identifier", name, <<>>, <<>>)
FunctionExpression == Node("FunctionExpression", "", <<>>, <<>>)
Literal(v) == Node("Literal", v, <<>>, <<>>)
MemberExpression(object, property) == Node("MemberExpression", property, <<object>>, <<>>)
CallExpression(callee, arguments) == Node("CallExpression", "", <<callee>>, arguments)
ObjectExpression(properties) == Node("ObjectExpression", "", <<>>, properties)
ArrayExpression(elements) == Node("ArrayExpression", "", <<>>, elements)
Property(key, value) == Node("Property", key, <<value>>, <<>>)
undefined == Node("undefined", "", <<>>, <<>>)

\* new PropTypes(name): the record of one property.
PropTypes(name) ==
  [name |-> name, id |-> "", type |-> "any", isRequired |-> FALSE,
   childTypes |-> <<>>, defaultValue |-> "", ast |-> <<>>]

\* JavaScript's null in a list of records.
null ==
  [name |-> "", id |-> "", type |-> "null", isRequired |-> FALSE,
   childTypes |-> <<>>, defaultValue |-> "", ast |-> <<>>]

IsNull(p) == p.type = "null"

HasNull(list) == \E i \in 1..Len(list) : IsNull(list[i])

(***************************************************************************)
(* findUpdateSpecialPropTypes, findPropTypesInObjectNode and               *)
(* findPropTypesInPropTypeNode (part_000 165-254)                          *)
(***************************************************************************)

\* Line 237: what findPropTypesInObjectNode does with one classified entry.
PushEntry(propTypes, entry) == Append(propTypes, entry)

\* Line 214: elements.map(...).filter(item => !!item)
FilterNull(list) == SelectSeq(list, LAMBDA item : ~IsNull(item))

RECURSIVE findUpdateSpecialPropTypes(_, _)
RECURSIVE findPropTypesInObjectNode(_)
RECURSIVE MapElements(_)

\* Lines 165-228.
findUpdateSpecialPropTypes(typeNode, name) ==
  IF typeNode.type \notin {"CallExpression", "MemberExpression"}
    THEN null
    ELSE
      LET isMember == typeNode.type = "MemberExpression"
          object == IF isMember THEN typeNode.sub[1] ELSE undefined
          call == IF ~isMember THEN typeNode
                  ELSE IF object.type = "CallExpression" THEN object
                  ELSE undefined
          callee == IF call.type = "CallExpression" THEN call.sub[1] ELSE undefined
          calleeParams ==
            IF call.type = "CallExpression" /\ Len(call.args) > 0
              THEN call.args[1] ELSE undefined
          \* lines 177-185
          memberType ==
            IF isMember /\ object.type = "MemberExpression" /\ object.name # "any"
              THEN object.name
            ELSE IF isMember /\ object.type = "Identifier" /\ typeNode.name # "any"
              THEN typeNode.name
            ELSE "any"
          \* lines 187-189
          required == isMember /\ typeNode.name = "isRequired"
          special == callee.type # "undefined" /\ calleeParams.type # "undefined"
          \* lines 198-203
          type ==
            IF special /\ callee.type = "MemberExpression" /\ callee.name # "any"
              THEN callee.name ELSE memberType
          \* lines 204-223
          childTypes ==
            IF ~special THEN <<>>
            ELSE IF calleeParams.type = "ObjectExpression"
              THEN findPropTypesInObjectNode(calleeParams)
            ELSE IF calleeParams.type = "ArrayExpression"
              THEN IF type = "oneOf" THEN <<>>
                   ELSE FilterNull(MapElements(calleeParams.args))
            ELSE IF calleeParams.type = "MemberExpression"
              THEN FilterNull(<<findUpdateSpecialPropTypes(calleeParams, "")>>)
            ELSE <<>>
          savedAst ==
            IF special /\ calleeParams.type = "ArrayExpression" /\ type = "oneOf"
              THEN <<calleeParams>> ELSE <<>>
      IN [PropTypes(name) EXCEPT !.type = type, !.isRequired = required,
                                 !.childTypes = childTypes, !.ast = savedAst]

MapElements(elements) ==
  IF elements = <<>> THEN <<>>
  ELSE <<findUpdateSpecialPropTypes(Head(elements), "")>> \o MapElements(Tail(elements))

RECURSIVE PushEntries(_, _)
PushEntries(propTypes, properties) ==
  IF properties = <<>> THEN propTypes
  ELSE PushEntries(
         PushEntry(propTypes,
                   findUpdateSpecialPropTypes(Head(properties).sub[1],
                                              Head(properties).name)),
         Tail(properties))

\* Lines 230-241.
findPropTypesInObjectNode(objectNode) ==
  IF objectNode.type = "ObjectExpression"
    THEN PushEntries(<<>>, objectNode.args)
    ELSE <<>>

\* A declaration node as findPropTypesNode returns it: null, a static class
\* property or an assignment, the last two holding an object literal.
NoDeclaration == [type |-> "null", static |-> FALSE, value |-> undefined]
ClassProperty(value) == [type |-> "ClassProperty", static |-> TRUE, value |-> value]
AssignmentExpression(right) ==
  [type |-> "AssignmentExpression", static |-> FALSE, value |-> right]

\* Lines 243-254.
findPropTypesInPropTypeNode(propNode) ==
  IF propNode.type = "null" THEN <<>>
  ELSE IF propNode.type = "ClassProperty" /\ propNode.static
    THEN findPropTypesInObjectNode(propNode.value)
  ELSE IF propNode.type = "AssignmentExpression"
    THEN findPropTypesInObjectNode(propNode.value)
  ELSE <<>>

(***************************************************************************)
(* Declarations given to findPropTypesInPropTypeNode                       *)
(***************************************************************************)

\* Bounds: entries of a declaration literal, entries of a nested literal.
MaxProps == 2
MaxChildren == 1

PropNames == <<"a", "b", "c", "d">>
ChildNames == <<"p", "q", "r">>

PT(type) == MemberExpression(Identifier("PropTypes"), type)
Required(node) == MemberExpression(node, "isRequired")

\* Value expressions that are neither a call nor a member expression.
Unclassifiable == {FunctionExpression, Identifier("customValidator")}

InnerValues == {FunctionExpression, PT("string"), Required(PT("number"))}

\* The literals {p: v1, q: v2, ...} over a set of values, keys in a fixed order.
ObjectLiterals(keys, values, n) ==
  UNION {{ObjectExpression([i \in 1..k |-> Property(keys[i], vs[i])]) :
            vs \in [1..k -> values]} : k \in 0..n}

Shapes ==
  {CallExpression(PT("shape"), <<o>>) :
     o \in ObjectLiterals(ChildNames, InnerValues, MaxChildren)}

DeclValues ==
  Unclassifiable
    \cup {PT("string"), PT("any"), Required(PT("string")), Required(PT("any"))}
    \cup Shapes
    \cup {Required(s) : s \in Shapes}
    \cup {CallExpression(PT("oneOfType"), <<ArrayExpression(es)>>) :
            es \in SeqsUpTo(InnerValues, MaxChildren)}
    \cup {CallExpression(PT("oneOf"), <<ArrayExpression(<<Literal("x")>>)>>),
          CallExpression(PT("arrayOf"), <<PT("string")>>),
          CallExpression(PT("arrayOf"), <<FunctionExpression>>),
          CallExpression(Identifier("validator"), <<>>)}

\* The declarations whose literal has up to n entries.
DeclNodes(n) ==
  {NoDeclaration}
    \cup {ClassProperty(o) : o \in ObjectLiterals(PropNames, DeclValues, n)}
    \cup {AssignmentExpression(o) : o \in ObjectLiterals(PropNames, DeclValues, n)}

Pending == [status |-> "pending", list |-> <<>>]
Returned(list) == [status |-> "returned", list |-> list]

\* The call findPropTypesInPropTypeNode(propTypesNode) of line 12.
DeclInterpret ==
  /\ explicitTypes = Pending
  /\ explicitTypes' = Returned(findPropTypesInPropTypeNode(propTypesNode))
  /\ UNCHANGED <<propTypesNode, usageTypes, defaultTypes, mergeOut>>
  /\ UNCHANGED mergeOthers

DeclNext == DeclInterpret

\* Whether a list, or a childTypes list below it, holds a null.
RECURSIVE HasNullDeep(_)
HasNullDeep(list) ==
  \E i \in 1..Len(list) : IsNull(list[i]) \/ HasNullDeep(list[i].childTypes)

\* The entries of a literal whose value is neither a call nor a member expression.
UnclassifiableEntries(objectNode) ==
  {i \in 1..Len(objectNode.args) :
     objectNode.args[i].sub[1].type \notin {"CallExpression", "MemberExpression"}}

(***************************************************************************)
(* findPropTypes (part_000 8-19)                                           *)
(***************************************************************************)

\* The names the three finders report on.
MergeNames == SubSeq(PropNames, 1, MaxProps)

RECURSIVE IndexOfName(_, _, _)
IndexOfName(list, name, i) ==
  IF i > Len(list) THEN 0
  ELSE IF list[i].name = name THEN i
  ELSE IndexOfName(list, name, i + 1)

\* propTypesHelper.customMergePropTypes, which is not among the sources: two
\* lists are combined by name; where both hold a record of one name the
\* later list's type and required flag stand, the default value is kept
\* when the later record brings none, and the childTypes are united.
RECURSIVE customMergePropTypes(_, _)
RECURSIVE MergeInto(_, _)
MergeRecords(old, new) ==
  [name |-> old.name,
   id |-> IF new.id # "" THEN new.id ELSE old.id,
   type |-> new.type,
   isRequired |-> new.isRequired,
   childTypes |-> customMergePropTypes(old.childTypes, new.childTypes),
   defaultValue |-> IF new.defaultValue # "" THEN new.defaultValue ELSE old.defaultValue,
   ast |-> IF new.ast # <<>> THEN new.ast ELSE old.ast]
MergeInto(total, current) ==
  IF current = <<>> THEN total
  ELSE LET c == Head(current)
           i == IndexOfName(total, c.name, 1)
       IN MergeInto(IF i = 0 THEN Append(total, c)
                    ELSE [total EXCEPT ![i] = MergeRecords(total[i], c)],
                    Tail(current))
customMergePropTypes(total, current) == MergeInto(total, current)

\* Reading the name of a null entry throws a TypeError inside the merge.
customMergeThrows(total, current) == HasNull(total) \/ HasNull(current)

\* arrayUtils.sortByKey(): ascending by name, as Array.prototype.sort orders.
NameRank(name) ==
  CHOOSE i \in 1..(Len(PropNames) + Len(ChildNames)) :
    (PropNames \o ChildNames)[i] = name

RECURSIVE InsertSorted(_, _)
InsertSorted(sorted, item) ==
  IF sorted = <<>> THEN <<item>>
  ELSE IF NameRank(item.name) < NameRank(Head(sorted).name)
    THEN <<item>> \o sorted
  ELSE <<Head(sorted)>> \o InsertSorted(Tail(sorted), item)

RECURSIVE sortByKey(_)
sortByKey(list) ==
  IF list = <<>> THEN <<>>
  ELSE InsertSorted(sortByKey(SubSeq(list, 1, Len(list) - 1)), list[Len(list)])

\* A faulty variant: the declared records are handed to the merge first.
ExplicitFirstResults(usage, defaults, explicit) == <<explicit, usage, defaults>>

\* Lines 9-13: the order in which Promise.all hands the three lists on.
findPropTypesResults(usage, defaults, explicit) == <<usage, defaults, explicit>>

\* Lines 14-16: results.reduce(customMergePropTypes, []).
RECURSIVE ReduceMerge(_, _)
ReduceMerge(total, results) ==
  IF results = <<>> THEN total
  ELSE ReduceMerge(customMergePropTypes(total, Head(results)), Tail(results))

RECURSIVE ReduceThrows(_, _)
ReduceThrows(total, results) ==
  /\ results # <<>>
  /\ \/ customMergeThrows(total, Head(results))
     \/ ReduceThrows(customMergePropTypes(total, Head(results)), Tail(results))

\* The records the usage pass and the defaults pass can report for a name.
UsageRecords ==
  [name \in SeqToSet(PropNames) |->
    {[PropTypes(name) EXCEPT !.id = name],
     [PropTypes(name) EXCEPT !.id = name, !.type = "func"]}]

DefaultRecords ==
  [name \in SeqToSet(PropNames) |->
    {[PropTypes(name) EXCEPT !.type = "number", !.defaultValue = "1"]}]

\* The lists that hold at most one record of a set per name, last name first.
RECURSIVE ListsPerName(_, _)
ListsPerName(names, records) ==
  IF names = <<>> THEN {<<>>}
  ELSE LET rest == ListsPerName(Tail(names), records)
       IN rest \cup {Append(l, r) : l \in rest, r \in records[Head(names)]}

MergeValues ==
  {FunctionExpression, PT("any"), Required(PT("string")),
   CallExpression(PT("shape"), <<ObjectExpression(<<Property("p", PT("string"))>>)>>)}

\* The object literals that give some of the names a value, in source order.
RECURSIVE PropertyLists(_)
PropertyLists(names) ==
  IF names = <<>> THEN {<<>>}
  ELSE LET rest == PropertyLists(Tail(names))
       IN rest \cup {<<Property(Head(names), v)>> \o l : l \in rest, v \in MergeValues}

MergeDeclNodes ==
  {NoDeclaration}
    \cup {ClassProperty(ObjectExpression(l)) : l \in PropertyLists(MergeNames)}
    \cup {AssignmentExpression(ObjectExpression(l)) : l \in PropertyLists(MergeNames)}

\* Line 12, the third promise of Promise.all.
MergeFind ==
  /\ explicitTypes = Pending
  /\ explicitTypes' = Returned(findPropTypesInPropTypeNode(propTypesNode))
  /\ UNCHANGED <<propTypesNode, usageTypes, defaultTypes, mergeOut>>
  /\ UNCHANGED mergeOthers

\* Lines 13-18: reduce the three lists, sort, or reject when the merge throws.
MergeThen ==
  /\ explicitTypes.status = "returned"
  /\ mergeOut = Pending
  /\ LET results == findPropTypesResults(usageTypes, defaultTypes, explicitTypes.list)
     IN mergeOut' =
          IF ReduceThrows(<<>>, results)
            THEN [status |-> "rejected", list |-> <<>>]
            ELSE [status |-> "resolved", list |-> sortByKey(ReduceMerge(<<>>, results))]
  /\ UNCHANGED <<propTypesNode, usageTypes, defaultTypes, explicitTypes>>
  /\ UNCHANGED mergeOthers

MergeNext == MergeFind \/ MergeThen

\* What the declaration says of an entry, read off its expression: the
\* required flag is the trailing .isRequired, the kind the member name or
\* the name of the invoked member below it.
DeclaredRequired(value) ==
  value.type = "MemberExpression" /\ value.name = "isRequired"

DeclaredKind(value) ==
  LET base == IF DeclaredRequired(value) THEN value.sub[1] ELSE value
  IN IF base.type = "CallExpression" THEN base.sub[1].name ELSE base.name

RecordsNamed(list, name) == {i \in 1..Len(list) : list[i].name = name}

(***************************************************************************)
(* findAndCompletePropTypes (part_000 320-357)                             *)
(***************************************************************************)

\* Bound: call and member expressions in a block.
MaxEvents == 3

\* What recast.visit meets in a block, in traversal order: a call f(...)
\* with an Identifier callee, or a member expression object.property.
CallOf(callee) == [kind |-> "call", object |-> callee, property |-> ""]
MemberOf(object, property) == [kind |-> "member", object |-> object, property |-> property]

BlockEvents ==
  {CallOf("a"), CallOf("b"), CallOf("x"),
   MemberOf("a", "p"), MemberOf("a", "q"), MemberOf("b", "p")}

\* A block; findBlockStatement returns null when there is none.
NoBlock == [present |-> FALSE, events |-> <<>>]
Blocks == {NoBlock} \cup {[present |-> TRUE, events |-> es] : es \in SeqsUpTo(BlockEvents, MaxEvents)}

\* Lines 322-325.
CompletionIds(list) ==
  SelectSeq(list, LAMBDA item : item.id # "" /\ item.type \in {"any", "shape"})

IdIn(ids, name) == \E i \in 1..Len(ids) : ids[i].id = name

RECURSIVE IndexOfId(_, _, _)
IndexOfId(list, id, i) ==
  IF i > Len(list) THEN 0
  ELSE IF list[i].id = id THEN i
  ELSE IndexOfId(list, id, i + 1)

\* propTypesHelper.getPropTypeByMemberExpression, which is not among the
\* sources: a member expression on one of the ids yields that id and a
\* fresh record, without binding id, for the accessed property.
getPropTypeByMemberExpression(ids, event) ==
  IF event.kind = "member" /\ IdIn(ids, event.object)
    THEN [name |-> event.object, propType |-> <<PropTypes(event.property)>>]
    ELSE [name |-> "", propType |-> <<>>]

\* Lines 336 and 348-349: the two upgrades of a record.
UpgradeToFunc(record) == [record EXCEPT !.type = "func"]

\* A faulty variant: the nested records are pushed instead of merged by name.
UpgradeToShapePushing(record, nested) ==
  [record EXCEPT !.type = "shape", !.childTypes = @ \o nested]

UpgradeToShape(record, nested) ==
  [record EXCEPT !.type = "shape",
                 !.childTypes = customMergePropTypes(@, nested)]

RECURSIVE findAndCompletePropTypes(_, _)
RECURSIVE VisitEvents(_, _, _, _)

\* Lines 330-353, one visitor call after the other.
VisitEvents(blk, newPropTypes, ids, events) ==
  IF events = <<>> THEN newPropTypes
  ELSE
    LET event == Head(events)
        found == getPropTypeByMemberExpression(ids, event)
        i == IF event.kind = "call" /\ IdIn(ids, event.object)
               THEN IndexOfId(newPropTypes, event.object, 1)
             ELSE IF event.kind = "member" /\ found.name # ""
               THEN IndexOfId(newPropTypes, found.name, 1)
             ELSE 0
        updated ==
          IF i = 0 THEN newPropTypes
          ELSE IF event.kind = "call"
            THEN [newPropTypes EXCEPT ![i] = UpgradeToFunc(@)]
          ELSE [newPropTypes EXCEPT ![i] =
                  UpgradeToShape(@, findAndCompletePropTypes(blk, found.propType))]
    IN VisitEvents(blk, updated, ids, Tail(events))

\* Lines 320-357.
findAndCompletePropTypes(blk, list) ==
  LET ids == CompletionIds(list)
  IN IF ids = <<>> \/ ~blk.present THEN list
     ELSE VisitEvents(blk, list, ids, blk.events)

\* Records as findPropTypesInObjectPattern builds them: every one carries
\* its binding id, and a pattern binds no id twice.
PatternRecords ==
  [name \in {"a", "b"} |->
    {[PropTypes(name) EXCEPT !.id = name],
     [PropTypes(name) EXCEPT !.id = name, !.type = "number", !.defaultValue = "1"],
     [PropTypes(name) EXCEPT !.id = name, !.type = "shape"],
     [PropTypes(name) EXCEPT !.id = name, !.type = "shape",
                             !.childTypes = <<[PropTypes("p") EXCEPT !.type = "number"]>>]}]

CompleteInputs ==
  {<<>>, <<PropTypes("a")>>}
    \cup {<<r>> : r \in PatternRecords["a"]}
    \cup {<<r, t>> : r \in PatternRecords["a"], t \in PatternRecords["b"]}

\* The completion pass on the records.
CompleteFirst ==
  /\ firstPass = Pending
  /\ firstPass' = Returned(findAndCompletePropTypes(block, completeIn))
  /\ UNCHANGED <<block, completeIn, secondPass>>
  /\ UNCHANGED completeOthers

\* The completion pass on the same block again, on what it returned.
CompleteSecond ==
  /\ firstPass.status = "returned"
  /\ secondPass = Pending
  /\ secondPass' = Returned(findAndCompletePropTypes(block, firstPass.list))
  /\ UNCHANGED <<block, completeIn, firstPass>>
  /\ UNCHANGED completeOthers

CompleteNext == CompleteFirst \/ CompleteSecond

\* The kinds and children of a list of records.
KindsAndChildren(list) ==
  [i \in 1..Len(list) |-> [type |-> list[i].type, childTypes |-> list[i].childTypes]]

(***************************************************************************)
(* bin/cli.js: parseAndGenerate (69-90), generatePropTypes (92-159),       *)
(* replaceCode and insertCode (179-203), the two commands (17-22, 41-49)   *)
(***************************************************************************)

\* Bounds: components in a file, files in the list of the project command.
MaxComps == 2
MaxFiles == 2

\* A component of a file: the type of its node, the type of its existing
\* propTypes declaration ("" when findPropTypesNode finds none) and what
\* findPropTypes makes of it: "some" records, "none", or "throws".
Component(type, decl, found) == [type |-> type, decl |-> decl, found |-> found]

Components ==
  {Component("ClassDeclaration", "", "some"),
   Component("ClassDeclaration", "", "none"),
   Component("FunctionDeclaration", "", "some"),
   Component("FunctionDeclaration", "", "none"),
   Component("ArrowFunctionExpression", "", "some"),
   Component("ClassDeclaration", "ClassProperty", "some"),
   Component("ClassDeclaration", "ClassProperty", "throws"),
   Component("ClassDeclaration", "AssignmentExpression", "none"),
   Component("FunctionDeclaration", "AssignmentExpression", "some")}

\* A file. status: "ok", "unreadable" (readFileSync throws), "empty" (the
\* data is ""), "syntaxError" (flowAst throws), "readOnly" (writeFileSync
\* throws). edits are the insertions and replacements written so far.
SourceFile(status, importPresent, comps) ==
  [status |-> status, importPresent |-> importPresent, comps |-> comps, edits |-> <<>>]

SourceFiles ==
  {SourceFile(st, FALSE, <<>>) : st \in {"unreadable", "empty", "syntaxError"}}
    \cup {SourceFile(st, imp, cs) :
            st \in {"ok", "readOnly"}, imp \in BOOLEAN,
            cs \in SeqsUpTo(Components, MaxComps)}

Configs == [codeStyle : {"", "default", "class"}, autoImport : {"", "disable"}]

Edit(what, at, comp) == [what |-> what, at |-> at, comp |-> comp]

\* The call of generatePropTypes a chain is in.
NoCall ==
  [comp |-> 0, data |-> <<>>, astImport |-> FALSE, componentType |-> "",
   propTypesNode |-> "", found |-> "", codeStyle |-> "", error |-> ""]

\* pc: "unstarted", "reducer", "nodes", "propTypes", "import", "settle",
\* "done" or "rejected" (the promise of Promise.reduce rejected).
NoChain ==
  [pc |-> "unstarted", names |-> <<>>, idx |-> 0, total |-> 0, errors |-> 0,
   call |-> NoCall]

\* Lines 149: whether the parsed data holds an import or require of the helper.
ImportEdits(edits) == SelectSeq(edits, LAMBDA e : e.what = "import")

findImportOrRequireModuleNode(file, data) ==
  file.importPresent \/ ImportEdits(data) # <<>>

\* Lines 70-80. componentName: -1 when the command gives none, 0 for a name
\* no component of the file has, k for the name of the k-th component.
parseAndGenerateNames(file, componentName) ==
  IF componentName >= 0 THEN [threw |-> FALSE, names |-> <<componentName>>]
  ELSE IF file.status = "unreadable" THEN [threw |-> TRUE, names |-> <<>>]
  ELSE IF file.status = "empty" THEN [threw |-> FALSE, names |-> <<>>]
  ELSE IF file.status = "syntaxError" THEN [threw |-> TRUE, names |-> <<>>]
  ELSE [threw |-> FALSE, names |-> [k \in 1..Len(file.comps) |-> k]]

\* Line 81: Promise.reduce(names, ..., 0), whose callbacks run later.
StartChain(names) ==
  [NoChain EXCEPT !.pc = IF names = <<>> THEN "done" ELSE "reducer",
                  !.names = names, !.idx = IF names = <<>> THEN 0 ELSE 1]

\* A faulty variant: the data is read once, before the first component is generated.
ReadOnceForGenerate(file) == <<>>

\* Line 93: generatePropTypes reads the file anew for every component.
ReadForGenerate(file) == file.edits

\* A faulty variant: a class component without declaration is given the class style.
DetectCodeStyleByKind(configured, declType, componentType) ==
  IF declType = "AssignmentExpression" THEN "default"
  ELSE IF declType = "ClassProperty" THEN "class"
  ELSE IF componentType = "ClassDeclaration" THEN "class"
  ELSE "default"

\* Lines 121-130: the code style detected from the declaration or the component.
DetectCodeStyle(configured, declType, componentType) ==
  IF declType = "AssignmentExpression" THEN "default"
  ELSE IF declType = "ClassProperty" THEN "class"
  ELSE IF declType = ""
          /\ componentType \in {"FunctionDeclaration", "ArrowFunctionExpression"}
    THEN "default"
  ELSE configured

\* Lines 132-145: where the declaration text goes.
DeclarationEdit(declType, codeStyle, comp) ==
  IF declType # "" THEN Edit("declaration", "propTypesNode.range", comp)
  ELSE IF codeStyle = "class"
    THEN Edit("declaration", "componentNode.body.range[0]+1", comp)
  ELSE Edit("declaration", "componentNode.range[1]", comp)

\* A faulty variant: the check of the empty list is missing.
NeverNotFindAnyProps(found) == FALSE

\* Lines 118-120.
NotFindAnyProps(found) == found = "none"

\* Lines 148-152: firstBody and importCode exist once a component was found.
InsertsImport(autoImport, importOrRequireNode) ==
  autoImport # "disable" /\ ~importOrRequireNode

\* The default command (17-22): parseAndGenerate on one file; its promise
\* is dropped.
CommandFile ==
  /\ phase = "sync"
  /\ loopI = 0
  /\ \E componentName \in -1..Len(disk[1].comps) :
       LET r == parseAndGenerateNames(disk[1], componentName)
       IN IF r.threw
            THEN /\ phase' = "crashed"
                 /\ UNCHANGED chains
            ELSE /\ phase' = "async"
                 /\ chains' = [chains EXCEPT ![1] = StartChain(r.names)]
  /\ loopI' = 1
  /\ UNCHANGED <<config, disk>>
  /\ UNCHANGED cliOthers

\* One turn of the loop of the project command (46-48). An exception out
\* of parseAndGenerate leaves the loop and ends the process.
ProjectLoop ==
  /\ phase = "sync"
  /\ loopI < Len(disk)
  /\ LET i == loopI + 1
         r == parseAndGenerateNames(disk[i], -1)
     IN IF r.threw
          THEN /\ phase' = "crashed"
               /\ UNCHANGED chains
          ELSE /\ phase' = "sync"
               /\ chains' = [chains EXCEPT ![i] = StartChain(r.names)]
  /\ loopI' = loopI + 1
  /\ UNCHANGED <<config, disk>>
  /\ UNCHANGED cliOthers

\* The action of the project command returns: queued callbacks may run.
ProjectReturn ==
  /\ phase = "sync"
  /\ loopI = Len(disk)
  /\ phase' = "async"
  /\ UNCHANGED <<config, disk, loopI, chains>>
  /\ UNCHANGED cliOthers

\* The reducer of line 81 calls generatePropTypes (92-109) up to Promise.all.
\* An exception of readFileSync or flowAst leaves the reducer before any
\* promise exists, and rejects the promise of Promise.reduce.
ReducerCall(f) ==
  /\ phase = "async"
  /\ chains[f].pc = "reducer"
  /\ LET c == chains[f]
         file == disk[f]
         k == c.names[c.idx]
         call == [NoCall EXCEPT !.comp = k, !.data = ReadForGenerate(file),
                    !.astImport = findImportOrRequireModuleNode(file, ReadForGenerate(file)),
                    !.codeStyle = config.codeStyle]
     IN chains' = [chains EXCEPT ![f] =
          IF file.status \in {"unreadable", "syntaxError"}
            THEN [c EXCEPT !.pc = "rejected"]
          ELSE IF file.status = "empty"
            THEN [c EXCEPT !.pc = "settle",
                           !.call = [call EXCEPT !.error = "can't resolve filePath"]]
          ELSE IF k = 0
            THEN [c EXCEPT !.pc = "settle",
                           !.call = [call EXCEPT !.error = "not a valid React Component"]]
          ELSE [c EXCEPT !.pc = "nodes",
                         !.call = [call EXCEPT
                                     !.componentType = file.comps[k].type,
                                     !.propTypesNode = file.comps[k].decl,
                                     !.found = file.comps[k].found]]]
  /\ UNCHANGED <<config, disk, phase, loopI>>
  /\ UNCHANGED cliOthers

\* Lines 109-117: the nodes arrive, findPropTypes is called.
ThenNodes(f) ==
  /\ phase = "async"
  /\ chains[f].pc = "nodes"
  /\ chains' = [chains EXCEPT ![f] =
       IF chains[f].call.found = "throws"
         THEN [chains[f] EXCEPT !.pc = "settle", !.call.error = "TypeError"]
         ELSE [chains[f] EXCEPT !.pc = "propTypes"]]
  /\ UNCHANGED <<config, disk, phase, loopI>>
  /\ UNCHANGED cliOthers

\* Lines 117-146: the records arrive; the declaration is replaced or inserted.
ThenPropTypes(f) ==
  /\ phase = "async"
  /\ chains[f].pc = "propTypes"
  /\ LET c == chains[f]
         style == DetectCodeStyle(c.call.codeStyle, c.call.propTypesNode,
                                  c.call.componentType)
         edit == DeclarationEdit(c.call.propTypesNode, style, c.call.comp)
     IN IF NotFindAnyProps(c.call.found)
          THEN /\ chains' = [chains EXCEPT ![f].pc = "settle",
                                           ![f].call.error = "Not find any props"]
               /\ UNCHANGED disk
        ELSE IF disk[f].status = "readOnly"
          THEN /\ chains' = [chains EXCEPT ![f].pc = "settle",
                                           ![f].call.codeStyle = style,
                                           ![f].call.error = "EACCES"]
               /\ UNCHANGED disk
        ELSE /\ chains' = [chains EXCEPT ![f].pc = "import",
                                         ![f].call.codeStyle = style]
             /\ disk' = [disk EXCEPT ![f].edits = Append(@, edit)]
  /\ UNCHANGED <<config, phase, loopI>>
  /\ UNCHANGED cliOthers

\* Lines 147-158: after a fulfilled generation, the import line.
ThenImport(f) ==
  /\ phase = "async"
  /\ chains[f].pc = "import"
  /\ chains' = [chains EXCEPT ![f].pc = "settle"]
  /\ disk' =
       IF InsertsImport(config.autoImport, chains[f].call.astImport)
         THEN [disk EXCEPT ![f].edits =
                 Append(@, Edit("import", "firstBody.range[0]", chains[f].call.comp))]
         ELSE disk
  /\ UNCHANGED <<config, phase, loopI>>
  /\ UNCHANGED cliOthers

\* Lines 82-88: the outcome is logged and the reducer goes to the next name.
ReducerSettle(f) ==
  /\ phase = "async"
  /\ chains[f].pc = "settle"
  /\ LET c == chains[f]
         more == c.idx < Len(c.names)
         ok == c.call.error = ""
     IN chains' = [chains EXCEPT ![f] =
          [c EXCEPT !.pc = IF more THEN "reducer" ELSE "done",
                    !.idx = IF more THEN c.idx + 1 ELSE c.idx,
                    !.total = IF ok THEN c.total + 1 ELSE c.total,
                    !.errors = IF ok THEN c.errors ELSE c.errors + 1]]
  /\ UNCHANGED <<config, disk, phase, loopI>>
  /\ UNCHANGED cliOthers

FileNext ==
  \/ CommandFile
  \/ \E f \in 1..Len(disk) : ReducerCall(f)
  \/ \E f \in 1..Len(disk) : ThenNodes(f)
  \/ \E f \in 1..Len(disk) : ThenPropTypes(f)
  \/ \E f \in 1..Len(disk) : ThenImport(f)
  \/ \E f \in 1..Len(disk) : ReducerSettle(f)

\* The files of the project runs: fewer kinds of component, any status.
ProjectComponents ==
  {Component("FunctionDeclaration", "", "some"),
   Component("ClassDeclaration", "ClassProperty", "none")}

ProjectFiles ==
  {SourceFile(st, FALSE, <<>>) : st \in {"unreadable", "empty", "syntaxError"}}
    \cup {SourceFile(st, FALSE, cs) :
            st \in {"ok", "readOnly"}, cs \in SeqsUpTo(ProjectComponents, MaxComps)}

ProjectNext ==
  \/ ProjectLoop
  \/ ProjectReturn
  \/ \E f \in 1..Len(disk) : ReducerCall(f)
  \/ \E f \in 1..Len(disk) : ThenNodes(f)
  \/ \E f \in 1..Len(disk) : ThenPropTypes(f)
  \/ \E f \in 1..Len(disk) : ThenImport(f)
  \/ \E f \in 1..Len(disk) : ReducerSettle(f)

\* The chain of a file has come to its end.
ChainEnded(f) == chains[f].pc \in {"done", "rejected"}

(***************************************************************************)
(* The specifications                                                      *)
(***************************************************************************)

InitWalk ==
  /\ fsRoot \in FsRoots
  /\ callStack = <<Frame(<<>>)>>
  /\ walkOut = [status |-> "running", files |-> <<>>]
  /\ ast = Nil
  /\ visitTodo = <<>>
  /\ componentNode = 0
  /\ locateOut = Nil
  /\ propTypesNode = Nil
  /\ usageTypes = <<>>
  /\ defaultTypes = <<>>
  /\ explicitTypes = Nil
  /\ mergeOut = Nil
  /\ block = Nil
  /\ completeIn = <<>>
  /\ firstPass = Nil
  /\ secondPass = Nil
  /\ config = Nil
  /\ disk = <<>>
  /\ phase = Nil
  /\ loopI = 0
  /\ chains = <<>>

SpecWalk == InitWalk /\ [][WalkNext]_vars

InitLocate ==
  /\ ast \in Trees
  /\ visitTodo = Children(ast, 0)
  /\ componentNode = 0
  /\ locateOut = [status |-> "pending", node |-> 0]
  /\ fsRoot = Nil
  /\ callStack = <<>>
  /\ walkOut = Nil
  /\ propTypesNode = Nil
  /\ usageTypes = <<>>
  /\ defaultTypes = <<>>
  /\ explicitTypes = Nil
  /\ mergeOut = Nil
  /\ block = Nil
  /\ completeIn = <<>>
  /\ firstPass = Nil
  /\ secondPass = Nil
  /\ config = Nil
  /\ disk = <<>>
  /\ phase = Nil
  /\ loopI = 0
  /\ chains = <<>>

SpecLocate == InitLocate /\ [][LocateNext]_vars

InitDecl ==
  /\ propTypesNode \in DeclNodes(MaxProps)
  /\ usageTypes = <<>>
  /\ defaultTypes = <<>>
  /\ explicitTypes = Pending
  /\ mergeOut = Nil
  /\ fsRoot = Nil
  /\ callStack = <<>>
  /\ walkOut = Nil
  /\ ast = Nil
  /\ visitTodo = <<>>
  /\ componentNode = 0
  /\ locateOut = Nil
  /\ block = Nil
  /\ completeIn = <<>>
  /\ firstPass = Nil
  /\ secondPass = Nil
  /\ config = Nil
  /\ disk = <<>>
  /\ phase = Nil
  /\ loopI = 0
  /\ chains = <<>>

SpecDecl == InitDecl /\ [][DeclNext]_vars

InitMerge ==
  /\ propTypesNode \in MergeDeclNodes
  /\ usageTypes \in ListsPerName(MergeNames, UsageRecords)
  /\ defaultTypes \in ListsPerName(MergeNames, DefaultRecords)
  /\ explicitTypes = Pending
  /\ mergeOut = Pending
  /\ fsRoot = Nil
  /\ callStack = <<>>
  /\ walkOut = Nil
  /\ ast = Nil
  /\ visitTodo = <<>>
  /\ componentNode = 0
  /\ locateOut = Nil
  /\ block = Nil
  /\ completeIn = <<>>
  /\ firstPass = Nil
  /\ secondPass = Nil
  /\ config = Nil
  /\ disk = <<>>
  /\ phase = Nil
  /\ loopI = 0
  /\ chains = <<>>

SpecMerge == InitMerge /\ [][MergeNext]_vars

InitComplete ==
  /\ block \in Blocks
  /\ completeIn \in CompleteInputs
  /\ firstPass = Pending
  /\ secondPass = Pending
  /\ fsRoot = Nil
  /\ callStack = <<>>
  /\ walkOut = Nil
  /\ ast = Nil
  /\ visitTodo = <<>>
  /\ componentNode = 0
  /\ locateOut = Nil
  /\ propTypesNode = Nil
  /\ usageTypes = <<>>
  /\ defaultTypes = <<>>
  /\ explicitTypes = Nil
  /\ mergeOut = Nil
  /\ config = Nil
  /\ disk = <<>>
  /\ phase = Nil
  /\ loopI = 0
  /\ chains = <<>>

SpecComplete == InitComplete /\ [][CompleteNext]_vars

InitFile ==
  /\ config \in Configs
  /\ disk \in {<<file>> : file \in SourceFiles}
  /\ phase = "sync"
  /\ loopI = 0
  /\ chains = <<NoChain>>
  /\ fsRoot = Nil
  /\ callStack = <<>>
  /\ walkOut = Nil
  /\ ast = Nil
  /\ visitTodo = <<>>
  /\ componentNode = 0
  /\ locateOut = Nil
  /\ propTypesNode = Nil
  /\ usageTypes = <<>>
  /\ defaultTypes = <<>>
  /\ explicitTypes = Nil
  /\ mergeOut = Nil
  /\ block = Nil
  /\ completeIn = <<>>
  /\ firstPass = Nil
  /\ secondPass = Nil

SpecFile == InitFile /\ [][FileNext]_vars

InitProject ==
  /\ config \in {[codeStyle |-> "", autoImport |-> ""]}
  /\ disk \in SeqsUpTo(ProjectFiles, MaxFiles)
  /\ phase = "sync"
  /\ loopI = 0
  /\ chains = [i \in 1..Len(disk) |-> NoChain]
  /\ fsRoot = Nil
  /\ callStack = <<>>
  /\ walkOut = Nil
  /\ ast = Nil
  /\ visitTodo = <<>>
  /\ componentNode = 0
  /\ locateOut = Nil
  /\ propTypesNode = Nil
  /\ usageTypes = <<>>
  /\ defaultTypes = <<>>
  /\ explicitTypes = Nil
  /\ mergeOut = Nil
  /\ block = Nil
  /\ completeIn = <<>>
  /\ firstPass = Nil
  /\ secondPass = Nil

SpecProject == InitProject /\ [][ProjectNext]_vars

(***************************************************************************)
(* The claims                                                              *)
(***************************************************************************)

Last(seq) == seq[Len(seq)]

\* The entries of the declaration literal in propTypesNode.
DeclaredEntries == propTypesNode.value.args

RunEnded ==
  \/ phase = "crashed"
  \/ phase = "async" /\ \A f \in 1..Len(disk) : ChainEnded(f)

\* C2 (SpecProject): in a run over a list of files a failure in one file,
\* at whatever step, does not abort the run: when the run has ended every
\* file of the list was handed to parseAndGenerate.
C2_FailureDoesNotAbortRun ==
  RunEnded => \A f \in 1..Len(disk) : chains[f].pc # "unstarted"

\* C3 (SpecProject): processing is strictly sequential across files: the
\* analysis of a file has not begun while the chain of the file before it
\* in the list still has writes to make.
C3_FilesStrictlySequential ==
  \A f \in 1..(Len(disk) - 1) :
    chains[f + 1].pc # "unstarted" => ChainEnded(f)

\* The component the current call of generatePropTypes on file f is about.
CallComponent(f) == disk[f].comps[chains[f].call.comp]

\* C4 (SpecFile): when the merged list of a component is empty,
\* generatePropTypes fails with 'Not find any props' and the file is left
\* as it was read: no declaration and no import line is written.
C4_NoPropertiesNoWrite ==
  \A f \in 1..Len(disk) :
    (/\ chains[f].pc = "settle"
     /\ chains[f].call.comp # 0
     /\ disk[f].status \in {"ok", "readOnly"}
     /\ CallComponent(f).found = "none")
      => /\ chains[f].call.error = "Not find any props"
         /\ disk[f].edits = chains[f].call.data

\* C4, its case: the empty list of a component of a writable file without
\* import, under a configuration that inserts imports.
C4_Witness ==
  /\ chains[1].pc = "settle"
  /\ chains[1].call.comp # 0
  /\ disk[1].status = "ok"
  /\ CallComponent(1).found = "none"
  /\ chains[1].call.error = "Not find any props"
  /\ ~disk[1].importPresent
  /\ config.autoImport # "disable"

\* The nodes of the tree that define the component, in pre-order.
Matches == MatchesInPreOrder(ast)

AnonymousClassIn(t) ==
  \E n \in DOMAIN t : t[n].label = [type |-> "ClassDeclaration", name |-> ""]

C6_NoNullInDeclaredTypes ==
  explicitTypes.status = "returned" => ~HasNullDeep(explicitTypes.list)

\* Where a declaration for a component without declaration has to go by
\* the code: behind the component, unless the component is a class and the
\* configured code style is "class".
PlaceInserted(componentType, configuredStyle) ==
  IF componentType = "ClassDeclaration" /\ configuredStyle = "class"
    THEN "componentNode.body.range[0]+1"
    ELSE "componentNode.range[1]"

\* Where it has to go by the claim as stated: by the kind of the component.
PlaceByComponentKind(componentType) ==
  IF componentType = "ClassDeclaration"
    THEN "componentNode.body.range[0]+1"
    ELSE "componentNode.range[1]"

\* The call on file f has just written the declaration of a component
\* that had none.
WroteNewDeclaration(f) ==
  /\ chains[f].pc = "import"
  /\ chains[f].call.propTypesNode = ""

\* C7 as amended (SpecFile): for a component without declaration the text
\* is inserted right behind the component's range when the component is a
\* function or an arrow function, and also when it is a class and the
\* configured codeStyle is not "class" (none given included); it is
\* inserted right inside the opening brace of the class body only for a
\* class under the configured codeStyle "class".
C7_InsertPlaceByStyle ==
  \A f \in 1..Len(disk) :
    WroteNewDeclaration(f) =>
      /\ disk[f].edits # <<>>
      /\ Last(disk[f].edits) =
           Edit("declaration",
                PlaceInserted(chains[f].call.componentType, config.codeStyle),
                chains[f].call.comp)

\* C7, its case: a class without declaration, no codeStyle configured, the
\* declaration inserted behind the class.
C7_Witness ==
  /\ WroteNewDeclaration(1)
  /\ chains[1].call.componentType = "ClassDeclaration"
  /\ config.codeStyle = ""
  /\ Last(disk[1].edits).at = "componentNode.range[1]"

\* C7 as stated (SpecFile): for a component without declaration the text
\* is inserted behind the component when it is function-style and inside
\* the opening brace of the class body when it is class-style, also when
\* no codeStyle is configured.
C7_InsertPlaceByKind ==
  \A f \in 1..Len(disk) :
    WroteNewDeclaration(f) =>
      /\ disk[f].edits # <<>>
      /\ Last(disk[f].edits) =
           Edit("declaration",
                PlaceByComponentKind(chains[f].call.componentType),
                chains[f].call.comp)

\* The data of file f holds an import or require of the helper.
ImportPresentIn(f, data) ==
  disk[f].importPresent \/ \E i \in 1..Len(data) : data[i].what = "import"

\* C8 (SpecFile): a generation that succeeded has inserted an import line,
\* before the first top-level statement, exactly when the file it read held
\* no import or require of the helper and autoImport is not "disable"; so
\* over all the components of a file at most one import line is inserted.
C8_ImportInsertedOnce ==
  \A f \in 1..Len(disk) :
    /\ Len(ImportEdits(disk[f].edits)) <= 1
    /\ disk[f].importPresent => ImportEdits(disk[f].edits) = <<>>
    /\ (chains[f].pc = "settle" /\ chains[f].call.error = "") =>
         LET before == chains[f].call.data
             now == disk[f].edits
         IN IF ~ImportPresentIn(f, before) /\ config.autoImport # "disable"
              THEN /\ Len(now) = Len(before) + 2
                   /\ SubSeq(now, 1, Len(before)) = before
                   /\ now[Len(before) + 1].what = "declaration"
                   /\ Last(now) = Edit("import", "firstBody.range[0]", chains[f].call.comp)
              ELSE /\ Len(now) = Len(before) + 1
                   /\ SubSeq(now, 1, Len(before)) = before
                   /\ Last(now).what = "declaration"

\* C8, its case: the second component of a file generated with success,
\* the import line inserted by the first.
C8_Witness ==
  /\ chains[1].pc = "settle"
  /\ chains[1].idx = 2
  /\ chains[1].total = 1
  /\ chains[1].call.error = ""
  /\ ~disk[1].importPresent
  /\ Len(ImportEdits(chains[1].call.data)) = 1
  /\ Len(ImportEdits(disk[1].edits)) = 1

\* C9 (SpecComplete): the completion pass applied to its own result on the
\* same block yields the kinds and the children of the first application.
C9_CompletionIdempotent ==
  secondPass.status = "returned" =>
    KindsAndChildren(secondPass.list) = KindsAndChildren(firstPass.list)

\* C9, its case: the first pass upgraded a record to a shape with children
\* and the second pass found records to scan the block for again.
C9_Witness ==
  /\ secondPass.status = "returned"
  /\ block.present
  /\ firstPass.list # completeIn
  /\ CompletionIds(firstPass.list) # <<>>
  /\ \E i \in 1..Len(firstPass.list) :
       /\ firstPass.list[i].type = "shape"
       /\ Len(firstPass.list[i].childTypes) >= 2

\* C10 (SpecWalk): on every finite directory tree getProjectJavascriptFiles
\* terminates and returns exactly the files below the path whose names end
\* in .js, .jsx, .ts or .tsx, each once.
C10_WalkReturnsSourceFiles ==
  /\ walkOut.status # "RangeError"
  /\ walkOut.status = "returned" =>
       /\ SeqToSet(walkOut.files) = SourceFilesUnder(fsRoot, <<>>)
       /\ NoDuplicates(walkOut.files)

====
